---- MODULE Spec2Model ----
(***************************************************************************)
(* The ordered-sequence engine of the block editing widgets (Sequence /    *)
(* SequenceMember) and the StreamBlock built on it.                        *)
(*                                                                         *)
(* The persisted state lives in hidden form fields addressed by element    *)
(* id: "<prefix>-count" for a Sequence, "<memberPrefix>-order",            *)
(* "<memberPrefix>-deleted" and "<memberPrefix>-type" for each member.     *)
(* A field holds text: numbers are written in decimal and read back with   *)
(* parseInt(.., 10).  A SequenceMember object is identified by its prefix  *)
(* (every one of its methods reaches the page through that prefix).        *)
(*                                                                         *)
(* Javascript arrays are 0-based, TLA+ sequences 1-based: array index i is *)
(* position i + 1 below.                                                   *)
(***************************************************************************)
EXTENDS Integers, Sequences, FiniteSets, TLC

\* ------------------------------------------------------------------ bounds

\* Largest value the count field reaches: inserts are disabled beyond it.
MaxCount == 3
\* Largest number of members rendered by the server before activation.
InitMax == 2

\* Largest number of members of a stream rendered by the server.
StreamInitMax == 2

\* Largest number of members of a list rendered by the server.
ListInitMax == 2

\* Largest number of members of a form re-rendered after earlier edits.
PersistedMax == 2

\* Two Sequences on one page: largest number of calls made on the two, and
\* largest number of members of either rendered by the server.
PairMaxCalls == 3
PairInitMax == 1

\* Largest number of times a macro is pasted.
MaxPastes == 4

\* ------------------------------------------------------------- addressing

\* opts.prefix of the Sequence under study.
optsPrefix == "seq"

\* opts.prefix + '-' + n
Prefix(n) == <<optsPrefix, n>>

\* The value of the global newMemberPrefix before any insert has run.
NoPrefix == <<"undefined", 0>>

\* The two Sequence implementations of the repository: the one offering
\* appendMember / deleteMember and the one offering insertMemberBefore /
\* insertMemberAfter / insertMemberAtStart / insertMemberAtEnd / deleteMember.
Impls == {"appendMember", "insertMember"}

VARIABLES
    impl,            \* which Sequence implementation was loaded
    countField,      \* text of the "<prefix>-count" field
    members,         \* the Sequence's in-memory array `members`
    orderField,      \* member prefix -> text of its "-order" field
    deletedField,    \* member prefix -> text of its "-deleted" field
    list,            \* member containers inside "<prefix>-list", in page order
    created,         \* prefixes of the SequenceMember objects, in creation order
    hookLog,         \* calls made to the opts.onInitialize... callbacks, in order
    hookSaw,         \* the Sequence as the callbacks of the last call found it
    newMemberPrefix, \* the (undeclared, hence global) variable newMemberPrefix
    initialCount,    \* value of the count field when the Sequence was constructed
    inserts,         \* number of insert calls made since construction
    lastOp,          \* the call that produced the current state
    phase,           \* StreamBlock: "rendered", "active" or "faulted"
    typeField,       \* StreamBlock: member prefix -> text of its "-type" field
    childParams,     \* StreamBlock: the childParams array passed to the initializer
    initLog,         \* StreamBlock: calls made to child block initializers, in order
    deleteBound,     \* StreamBlock: prefixes whose delete button has a click handler
    opts,            \* the arguments the component was built and activated with
    sibling          \* a second Sequence on the page, built with another prefix,
                     \* with the number of calls made on the two

seqVars == <<impl, countField, members, orderField, deletedField, list, created,
             hookLog, hookSaw, newMemberPrefix, initialCount, inserts, opts, sibling>>
streamVars == <<phase, typeField, childParams, initLog, deleteBound>>
vars == <<seqVars, lastOp, streamVars>>

\* ------------------------------------------------------- text <-> number

\* String(n) for n >= 0, as the sequence of its decimal digits.
RECURSIVE ToDec(_)
ToDec(n) == IF n < 10 THEN <<n>> ELSE Append(ToDec(n \div 10), n % 10)

\* parseInt(text, 10) of a non-empty digit string.
RECURSIVE ParseInt(_)
ParseInt(text) ==
    IF Len(text) = 1 THEN text[1]
    ELSE 10 * ParseInt(SubSeq(text, 1, Len(text) - 1)) + text[Len(text)]

\* ------------------------------------------------------- SequenceMember

\* self.getIndex(): parseInt(indexField.val(), 10)
getIndex(S, member) == ParseInt(S.orderField[member])

\* self.setIndex(i): indexField.val(i)
setIndex(S, member, i) == [S EXCEPT !.orderField[member] = ToDec(i)]

\* A _markDeleted that flips the flag instead of setting it.
markDeletedToggling(S, member) ==
    [S EXCEPT !.deletedField[member] = IF @ = "1" THEN "" ELSE "1"]

\* self._markDeleted(): $('#' + self.prefix + '-deleted').val('1')
markDeleted(S, member) == [S EXCEPT !.deletedField[member] = "1"]

\* SequenceMember(sequence, prefix): the object, and the fields of the markup
\* just pasted for it (an element id already on the page keeps resolving to
\* the earlier element).
SequenceMember(S, prefix) ==
    [S EXCEPT !.created = Append(@, prefix),
              !.orderField = @ @@ (prefix :> <<>>),
              !.deletedField = @ @@ (prefix :> "")]

\* ------------------------------------------------------------ array helpers

Min(a, b) == IF a < b THEN a ELSE b

\* members.splice(index, 0, x): index beyond the end is clamped to the end.
SpliceInsert(arr, index, x) ==
    LET at == Min(index, Len(arr))
    IN  SubSeq(arr, 1, at) \o <<x>> \o SubSeq(arr, at + 1, Len(arr))

\* members.splice(index, 1): removes nothing when index is beyond the end.
SpliceRemove(arr, index) ==
    IF index < Len(arr)
    THEN SubSeq(arr, 1, index) \o SubSeq(arr, index + 2, Len(arr))
    ELSE arr

\* Array position (0-based) of the first container with that prefix.
PositionIn(arr, prefix) ==
    CHOOSE i \in 0..(Len(arr) - 1) :
        /\ arr[i + 1] = prefix
        /\ \A j \in 0..(i - 1) : arr[j + 1] # prefix

\* for (var i = from; i < members.length; i++) members[i].setIndex(i + delta)
RECURSIVE RenumberFrom(_, _, _)
RenumberFrom(S, from, delta) ==
    IF from >= Len(S.members) THEN S
    ELSE RenumberFrom(setIndex(S, S.members[from + 1], from + delta), from + 1, delta)

\* ----------------------------------------------------------------- Sequence

\* A getCount that answers with the live length instead of the counter.
getCountOfLive(S) == Len(S.members)

\* self.getCount(): parseInt(countField.val(), 10)
getCount(S) == ParseInt(S.countField)

\* A getNewMemberPrefix that numbers the new member by the live length, so
\* that the suffix of a deleted member is handed out again.
getNewMemberPrefixFromLive(S) ==
    [S EXCEPT !.countField = ToDec(Len(S.members) + 1),
              !.newMemberPrefix = <<S.prefix, Len(S.members)>>]

\* An insert that keeps the prefix it finds in the shared newMemberPrefix
\* (newMemberPrefix = newMemberPrefix || getNewMemberPrefix()).
getNewMemberPrefixIfUnset(S) ==
    [S EXCEPT !.countField = ToDec(getCount(S) + 1),
              !.newMemberPrefix = IF @ = NoPrefix THEN <<S.prefix, getCount(S)>> ELSE @]

\* getNewMemberPrefix(): reads the counter, stores counter + 1, and returns
\* opts.prefix + '-' + counter (kept here in newMemberPrefix).
getNewMemberPrefix(S) ==
    [S EXCEPT !.countField = ToDec(getCount(S) + 1),
              !.newMemberPrefix = <<S.prefix, getCount(S)>>]

Hook(name, member) == [hook |-> name, member |-> member]

\* What a callback reads when it looks at the Sequence it is called from, and
\* the value that stands for a call that ran no callback.
View(S) == [countField |-> S.countField, members |-> S.members,
            orderField |-> S.orderField]
NoView == [countField |-> <<>>, members |-> <<>>, orderField |-> <<>>]

\* postInsertMember(newMember): runs opts.onInitializeMember, then _markAdded
\* (a slide-down animation, no state).
postInsertMember(S, newMember) ==
    [S EXCEPT !.hookLog = Append(@, Hook("onInitializeMember", newMember)),
              !.hookSaw = View(S)]

insertMemberBefore(S0, otherMember) ==
    LET S1 == getNewMemberPrefix(S0)
        p == S1.newMemberPrefix
        S2 == [S1 EXCEPT !.list = SpliceInsert(@, PositionIn(@, otherMember), p)]
        S3 == SequenceMember(S2, p)
        index == getIndex(S3, otherMember)
        S4 == RenumberFrom(S3, index, 1)
        S5 == [S4 EXCEPT !.members = SpliceInsert(@, index, p)]
        S6 == setIndex(S5, p, index)
    IN  postInsertMember(S6, p)

insertMemberAfter(S0, otherMember) ==
    LET S1 == getNewMemberPrefix(S0)
        p == S1.newMemberPrefix
        S2 == [S1 EXCEPT !.list = SpliceInsert(@, PositionIn(@, otherMember) + 1, p)]
        S3 == SequenceMember(S2, p)
        index == getIndex(S3, otherMember) + 1
        S4 == RenumberFrom(S3, index, 1)
        S5 == [S4 EXCEPT !.members = SpliceInsert(@, index, p)]
        S6 == setIndex(S5, p, index)
    IN  postInsertMember(S6, p)

insertMemberAtStart(S0) ==
    LET S1 == getNewMemberPrefix(S0)
        p == S1.newMemberPrefix
        S2 == [S1 EXCEPT !.list = <<p>> \o @]
        S3 == SequenceMember(S2, p)
        S4 == RenumberFrom(S3, 0, 1)
        S5 == [S4 EXCEPT !.members = <<p>> \o @]
        S6 == setIndex(S5, p, 0)
    IN  postInsertMember(S6, p)

insertMemberAtEnd(S0) ==
    LET S1 == getNewMemberPrefix(S0)
        p == S1.newMemberPrefix
        S2 == [S1 EXCEPT !.list = Append(@, p)]
        S3 == SequenceMember(S2, p)
        S4 == setIndex(S3, p, Len(S3.members))
        S5 == [S4 EXCEPT !.members = Append(@, p)]
    IN  postInsertMember(S5, p)

\* An appendMember that calls onInitializeNewMember before onInitializeMember.
appendMemberVariantHookFirst(S0) ==
    LET newIndex == getCount(S0)
        p == <<S0.prefix, newIndex>>
        S1 == [S0 EXCEPT !.countField = ToDec(newIndex + 1)]
        S2 == [S1 EXCEPT !.list = Append(@, p)]
        S3 == SequenceMember(S2, p)
        S4 == setIndex(S3, p, Len(S3.members))
        S5 == [S4 EXCEPT !.members = Append(@, p)]
    IN  [S5 EXCEPT !.hookLog = @ \o <<Hook("onInitializeNewMember", p),
                                      Hook("onInitializeMember", p)>>,
                   !.hookSaw = View(S5)]

\* Sequence.appendMember(template) of the implementation without relative
\* inserts: the same allocation and placement as insertMemberAtEnd (its
\* newMemberPrefix is a local), then onInitializeMember and
\* onInitializeNewMember.
appendMember(S0) ==
    LET newIndex == getCount(S0)
        p == <<S0.prefix, newIndex>>
        S1 == [S0 EXCEPT !.countField = ToDec(newIndex + 1)]
        S2 == [S1 EXCEPT !.list = Append(@, p)]
        S3 == SequenceMember(S2, p)
        S4 == setIndex(S3, p, Len(S3.members))
        S5 == [S4 EXCEPT !.members = Append(@, p)]
    IN  [S5 EXCEPT !.hookLog = @ \o <<Hook("onInitializeMember", p),
                                      Hook("onInitializeNewMember", p)>>,
                   !.hookSaw = View(S5)]

\* A deleteMember that also gives the deleted member's slot back to the counter.
deleteMemberReclaimingCount(S0, member) ==
    LET index == getIndex(S0, member)
        S1 == RenumberFrom(S0, index + 1, -1)
        S2 == [S1 EXCEPT !.members = SpliceRemove(@, index)]
        S3 == [S2 EXCEPT !.countField = ToDec(getCount(S2) - 1)]
    IN  markDeleted(S3, member)

\* A deleteMember that leaves the order fields of the later members alone.
deleteMemberWithoutRenumbering(S0, member) ==
    LET index == getIndex(S0, member)
        S2 == [S0 EXCEPT !.members = SpliceRemove(@, index)]
    IN  markDeleted(S2, member)

\* Sequence.deleteMember(member), identical in both implementations.
deleteMember(S0, member) ==
    LET index == getIndex(S0, member)
        S1 == RenumberFrom(S0, index + 1, -1)
        S2 == [S1 EXCEPT !.members = SpliceRemove(@, index)]
    IN  markDeleted(S2, member)

\* The callbacks run by the constructor's loop for the member at index i.
InitialMemberHooks(prefix, theImpl, i) ==
    IF theImpl = "appendMember"
    THEN <<Hook("onInitializeMember", <<prefix, i>>),
           Hook("onInitializeInitialMember", <<prefix, i>>)>>
    ELSE <<Hook("onInitializeMember", <<prefix, i>>)>>

RECURSIVE InitialHooks(_, _, _)
InitialHooks(prefix, theImpl, n) ==
    IF n = 0 THEN <<>>
    ELSE InitialHooks(prefix, theImpl, n - 1) \o InitialMemberHooks(prefix, theImpl, n - 1)

\* Sequence(opts) with opts.prefix = prefix over a page holding n members as
\* the server renders them: member i has prefix opts.prefix + '-' + i, order
\* i and no deleted flag.
ConstructedAt(prefix, theImpl, n) ==
    LET S == [prefix          |-> prefix,
              countField      |-> ToDec(n),
              members         |-> [i \in 1..n |-> <<prefix, i - 1>>],
              orderField      |-> [p \in {<<prefix, i>> : i \in 0..(n - 1)} |-> ToDec(p[2])],
              deletedField    |-> [p \in {<<prefix, i>> : i \in 0..(n - 1)} |-> ""],
              list            |-> [i \in 1..n |-> <<prefix, i - 1>>],
              created         |-> [i \in 1..n |-> <<prefix, i - 1>>],
              hookLog         |-> InitialHooks(prefix, theImpl, n),
              hookSaw         |-> NoView,
              newMemberPrefix |-> NoPrefix]
    IN  IF n = 0 THEN S ELSE [S EXCEPT !.hookSaw = View(S)]

Constructed(theImpl, n) == ConstructedAt(optsPrefix, theImpl, n)

\* The value of `sibling` on a page that holds one Sequence only.
NoSequence == <<>>

\* ------------------------------------------------------------ state machine

\* The Sequence as a value when a call starts (no callback of that call has
\* run yet), and the step that makes a value the next state.
Cur ==
    [countField |-> countField, members |-> members, orderField |-> orderField,
     deletedField |-> deletedField, list |-> list, created |-> created,
     hookLog |-> hookLog, hookSaw |-> NoView, newMemberPrefix |-> newMemberPrefix,
     prefix |-> optsPrefix]

BecomeSequence(S) ==
    /\ countField' = S.countField
    /\ members' = S.members
    /\ orderField' = S.orderField
    /\ deletedField' = S.deletedField
    /\ list' = S.list
    /\ created' = S.created
    /\ hookLog' = S.hookLog
    /\ hookSaw' = S.hookSaw
    /\ newMemberPrefix' = S.newMemberPrefix

Become(S) ==
    /\ BecomeSequence(S)
    /\ UNCHANGED <<impl, initialCount, opts, sibling>>

Op(name, target) == [op |-> name, target |-> target]

\* Every SequenceMember object ever handed out: callers keep them (their
\* buttons stay bound), so any of them can be the argument of a call.
Members == {created[i] : i \in DOMAIN created}

StreamIdle ==
    /\ phase = "none"
    /\ UNCHANGED streamVars

Init ==
    /\ impl \in Impls
    /\ initialCount \in 0..InitMax
    /\ LET S == Constructed(impl, initialCount)
       IN  /\ countField = S.countField
           /\ members = S.members
           /\ orderField = S.orderField
           /\ deletedField = S.deletedField
           /\ list = S.list
           /\ created = S.created
           /\ hookLog = S.hookLog
           /\ hookSaw = S.hookSaw
           /\ newMemberPrefix = S.newMemberPrefix
    /\ inserts = 0
    /\ lastOp = Op("Sequence", NoPrefix)
    /\ phase = "none"
    /\ typeField = <<>>
    /\ childParams = <<>>
    /\ initLog = <<>>
    /\ deleteBound = {}
    /\ sibling = NoSequence
    /\ opts = [prefix |-> optsPrefix]

InsertMemberBefore(otherMember) ==
    /\ impl = "insertMember"
    /\ getCount(Cur) < MaxCount
    /\ Become(insertMemberBefore(Cur, otherMember))
    /\ lastOp' = Op("insertMemberBefore", otherMember)
    /\ inserts' = inserts + 1
    /\ StreamIdle

InsertMemberAfter(otherMember) ==
    /\ impl = "insertMember"
    /\ getCount(Cur) < MaxCount
    /\ Become(insertMemberAfter(Cur, otherMember))
    /\ lastOp' = Op("insertMemberAfter", otherMember)
    /\ inserts' = inserts + 1
    /\ StreamIdle

InsertMemberAtStart ==
    /\ impl = "insertMember"
    /\ getCount(Cur) < MaxCount
    /\ Become(insertMemberAtStart(Cur))
    /\ lastOp' = Op("insertMemberAtStart", NoPrefix)
    /\ inserts' = inserts + 1
    /\ StreamIdle

InsertMemberAtEnd ==
    /\ impl = "insertMember"
    /\ getCount(Cur) < MaxCount
    /\ Become(insertMemberAtEnd(Cur))
    /\ lastOp' = Op("insertMemberAtEnd", NoPrefix)
    /\ inserts' = inserts + 1
    /\ StreamIdle

AppendMember ==
    /\ impl = "appendMember"
    /\ getCount(Cur) < MaxCount
    /\ Become(appendMember(Cur))
    /\ lastOp' = Op("appendMember", NoPrefix)
    /\ inserts' = inserts + 1
    /\ StreamIdle

DeleteMember(member) ==
    /\ Become(deleteMember(Cur, member))
    /\ lastOp' = Op("deleteMember", member)
    /\ UNCHANGED inserts
    /\ StreamIdle

Next ==
    \/ \E m \in Members : InsertMemberBefore(m)
    \/ \E m \in Members : InsertMemberAfter(m)
    \/ InsertMemberAtStart
    \/ InsertMemberAtEnd
    \/ AppendMember
    \/ \E m \in Members : DeleteMember(m)

Spec == Init /\ [][Next]_vars


\* --------------------------------------------- Sequence over a re-rendered form
\* The Sequence constructed over a page that already carries the outcome of
\* earlier edits: deleted flags set and order values that differ from the
\* prefix numbers.

\* The pages a form can be re-rendered to with n members: any deleted flags,
\* the orders of the non-deleted members a numbering 0..k-1 without repeats,
\* the orders of the deleted members whatever they last were.
PersistedPages(n) ==
    LET prefixes == {Prefix(i) : i \in 0..(n - 1)}
    IN  {pg \in [order : [prefixes -> 0..(n - 1)], deleted : [prefixes -> {"", "1"}]] :
            LET kept == {q \in prefixes : pg.deleted[q] # "1"}
            IN  /\ {pg.order[q] : q \in kept} = 0..(Cardinality(kept) - 1)
                /\ \A q1, q2 \in kept : q1 # q2 => pg.order[q1] # pg.order[q2]}

\* Sequence(opts) over such a page: the constructor's loop reads the count
\* field only and sets members[i] to the member of prefix i for every
\* i < count; it reads neither the deleted nor the order fields.
ConstructedOver(theImpl, n, pg) ==
    LET S == [Constructed(theImpl, n) EXCEPT
                  !.orderField = [q \in DOMAIN pg.order |-> ToDec(pg.order[q])],
                  !.deletedField = pg.deleted]
    IN  IF n = 0 THEN S ELSE [S EXCEPT !.hookSaw = View(S)]

PersistedInit ==
    /\ impl \in Impls
    /\ initialCount \in 0..PersistedMax
    /\ \E pg \in PersistedPages(initialCount) :
           LET S == ConstructedOver(impl, initialCount, pg)
           IN  /\ countField = S.countField
               /\ members = S.members
               /\ orderField = S.orderField
               /\ deletedField = S.deletedField
               /\ list = S.list
               /\ created = S.created
               /\ hookLog = S.hookLog
               /\ hookSaw = S.hookSaw
               /\ newMemberPrefix = S.newMemberPrefix
    /\ inserts = 0
    /\ lastOp = Op("Sequence", NoPrefix)
    /\ phase = "none"
    /\ typeField = <<>>
    /\ childParams = <<>>
    /\ initLog = <<>>
    /\ deleteBound = {}
    /\ sibling = NoSequence
    /\ opts = [prefix |-> optsPrefix]

SpecPersisted == PersistedInit /\ [][Next]_vars


\* ------------------------------------------------- two Sequences on one page
\* Two Sequence instances of the implementation with relative inserts, built
\* with different prefixes.  Each has its own list, countField and members;
\* newMemberPrefix, assigned without var, is one variable for both.

\* opts.prefix of the second Sequence: a sibling of the first, or a Sequence
\* nested in the value of the first's member 0.
SiblingPrefixes == {"other", "seq-0-value"}

SiblingMembers == {sibling.created[i] : i \in DOMAIN sibling.created}

PairInit ==
    /\ impl = "insertMember"
    /\ initialCount \in 0..PairInitMax
    /\ LET S == Constructed(impl, initialCount)
       IN  /\ countField = S.countField
           /\ members = S.members
           /\ orderField = S.orderField
           /\ deletedField = S.deletedField
           /\ list = S.list
           /\ created = S.created
           /\ hookLog = S.hookLog
           /\ hookSaw = S.hookSaw
           /\ newMemberPrefix = S.newMemberPrefix
    /\ inserts = 0
    /\ lastOp = Op("Sequence", NoPrefix)
    /\ phase = "none"
    /\ typeField = <<>>
    /\ childParams = <<>>
    /\ initLog = <<>>
    /\ deleteBound = {}
    /\ opts = [prefix |-> optsPrefix]
    /\ \E prefix \in SiblingPrefixes : \E n \in 0..PairInitMax :
           /\ prefix = "seq-0-value" => initialCount >= 1
           /\ sibling = [inserts |-> 0, calls |-> 0] @@ ConstructedAt(prefix, impl, n)

\* One more call has been made on the page.
Called(S) == [S EXCEPT !.calls = @ + 1]

\* A call on the first Sequence that makes it S.
PairBecome(S, name, target) ==
    /\ sibling.calls < PairMaxCalls
    /\ BecomeSequence(S)
    /\ lastOp' = Op(name, target)
    /\ sibling' = Called(sibling)
    /\ UNCHANGED <<impl, initialCount, opts, streamVars>>

PairInsertMemberBefore(otherMember) ==
    /\ PairBecome(insertMemberBefore(Cur, otherMember), "insertMemberBefore", otherMember)
    /\ inserts' = inserts + 1

PairInsertMemberAfter(otherMember) ==
    /\ PairBecome(insertMemberAfter(Cur, otherMember), "insertMemberAfter", otherMember)
    /\ inserts' = inserts + 1

PairInsertMemberAtStart ==
    /\ PairBecome(insertMemberAtStart(Cur), "insertMemberAtStart", NoPrefix)
    /\ inserts' = inserts + 1

PairInsertMemberAtEnd ==
    /\ PairBecome(insertMemberAtEnd(Cur), "insertMemberAtEnd", NoPrefix)
    /\ inserts' = inserts + 1

PairDeleteMember(member) ==
    /\ PairBecome(deleteMember(Cur, member), "deleteMember", member)
    /\ UNCHANGED inserts

\* The second Sequence as a value when a call on it starts: it finds in
\* newMemberPrefix whatever the last insert on the page left there.
SiblingCur == [sibling EXCEPT !.newMemberPrefix = newMemberPrefix, !.hookSaw = NoView]

\* A call on the second Sequence that makes it S: what S left in
\* newMemberPrefix is what the page's one variable now holds.
SiblingBecome(S, name, target) ==
    /\ sibling.calls < PairMaxCalls
    /\ sibling' = Called([S EXCEPT !.newMemberPrefix = NoPrefix])
    /\ newMemberPrefix' = S.newMemberPrefix
    /\ lastOp' = Op(name, target)
    /\ UNCHANGED <<impl, countField, members, orderField, deletedField, list, created,
                   hookLog, hookSaw, initialCount, inserts, opts, streamVars>>

SiblingInserted(S) == [S EXCEPT !.inserts = @ + 1]

SiblingInsertMemberBefore(otherMember) ==
    SiblingBecome(SiblingInserted(insertMemberBefore(SiblingCur, otherMember)),
                  "sibling.insertMemberBefore", otherMember)

SiblingInsertMemberAfter(otherMember) ==
    SiblingBecome(SiblingInserted(insertMemberAfter(SiblingCur, otherMember)),
                  "sibling.insertMemberAfter", otherMember)

SiblingInsertMemberAtStart ==
    SiblingBecome(SiblingInserted(insertMemberAtStart(SiblingCur)),
                  "sibling.insertMemberAtStart", NoPrefix)

SiblingInsertMemberAtEnd ==
    SiblingBecome(SiblingInserted(insertMemberAtEnd(SiblingCur)),
                  "sibling.insertMemberAtEnd", NoPrefix)

SiblingDeleteMember(member) ==
    SiblingBecome(deleteMember(SiblingCur, member), "sibling.deleteMember", member)

PairNext ==
    \/ \E m \in Members : PairInsertMemberBefore(m)
    \/ \E m \in Members : PairInsertMemberAfter(m)
    \/ PairInsertMemberAtStart
    \/ PairInsertMemberAtEnd
    \/ \E m \in Members : PairDeleteMember(m)
    \/ \E m \in SiblingMembers : SiblingInsertMemberBefore(m)
    \/ \E m \in SiblingMembers : SiblingInsertMemberAfter(m)
    \/ SiblingInsertMemberAtStart
    \/ SiblingInsertMemberAtEnd
    \/ \E m \in SiblingMembers : SiblingDeleteMember(m)

SpecPair == PairInit /\ [][PairNext]_vars


\* -------------------------------------------------------------- StreamBlock
\* The StreamBlock that hands its three callbacks to the Sequence offering
\* appendMember / deleteMember.

\* opts.childBlocks: the registered child block types, by name.  "heading" is
\* registered without an initializer (a block with no Javascript behaviour).
ChildBlockNames == {"text", "image", "heading"}

HasInitializer(name) == name # "heading"

\* childBlocksByName[name].templateInitializerParam
templateInitializerParam(name) == <<"default", name>>

\* What a "-type" field of a rendered page may hold.
TypeTags == ChildBlockNames \cup {"unknown_type"}

\* childParams[i] as supplied by the server for member i.
ServerParam(i) == <<"value", i>>

\* listMemberPrefix + '-value'
ValuePrefix(memberPrefix) == <<memberPrefix, "value">>

InitCall(name, param, memberPrefix) ==
    [type |-> name, param |-> param, prefix |-> ValuePrefix(memberPrefix)]

\* An initChild that runs the initializer of the "text" block whatever the
\* member's type field says.
initChildOfOneType(A, blockTypeName, childParam, listMemberPrefix) ==
    IF blockTypeName \notin ChildBlockNames
    THEN [A EXCEPT !.thrown = TRUE]
    ELSE [A EXCEPT !.initLog = Append(@, InitCall("text", childParam, listMemberPrefix))]

\* initChild(blockTypeName, childParam, listMemberPrefix) on the running
\* activation A.  childBlocksByName[blockTypeName] is undefined for a name that
\* was never registered, and reading .initializer of undefined throws.
initChild(A, blockTypeName, childParam, listMemberPrefix) ==
    IF blockTypeName \notin ChildBlockNames
    THEN [A EXCEPT !.thrown = TRUE]
    ELSE IF HasInitializer(blockTypeName)
         THEN [A EXCEPT !.initLog =
                   Append(@, InitCall(blockTypeName, childParam, listMemberPrefix))]
         ELSE A

\* opts.onInitializeMember: binds the click handler of the member's delete button.
onInitializeMember(A, memberPrefix) ==
    [A EXCEPT !.deleteBound = @ \cup {memberPrefix},
              !.S.hookLog = Append(@, Hook("onInitializeMember", memberPrefix)),
              !.S.hookSaw = View(A.S)]

\* opts.onInitializeInitialMember(sequenceMember, memberPrefix, index)
onInitializeInitialMember(A, types, params, memberPrefix, index) ==
    initChild([A EXCEPT !.S.hookLog =
                   Append(@, Hook("onInitializeInitialMember", memberPrefix))],
              types[memberPrefix], params[index + 1], memberPrefix)

\* opts.onInitializeNewMember(sequenceMember, memberPrefix)
onInitializeNewMember(A, types, memberPrefix) ==
    initChild(A, types[memberPrefix],
              templateInitializerParam(types[memberPrefix]), memberPrefix)

\* The constructor's loop from index i on: for (i = ..; i < self.getCount(); i++).
\* An exception thrown by a callback leaves the loop and the constructor.
RECURSIVE SequenceLoop(_, _, _, _)
SequenceLoop(A, types, params, i) ==
    IF A.thrown \/ i >= getCount(A.S) THEN A
    ELSE LET A1 == [A EXCEPT !.S.members = Append(@, Prefix(i)),
                             !.S.created = Append(@, Prefix(i))]
             A2 == onInitializeMember(A1, Prefix(i))
             A3 == onInitializeInitialMember(A2, types, params, Prefix(i), i)
         IN  SequenceLoop(A3, types, params, i + 1)

\* The page as the server renders a stream of n members with the given type tags.
Rendered(n) ==
    [Constructed("appendMember", n) EXCEPT !.members = <<>>, !.created = <<>>,
                                           !.hookLog = <<>>, !.hookSaw = NoView]

StreamInit ==
    /\ impl = "appendMember"
    /\ initialCount \in 0..StreamInitMax
    /\ LET S == Rendered(initialCount)
       IN  /\ countField = S.countField
           /\ members = S.members
           /\ orderField = S.orderField
           /\ deletedField = S.deletedField
           /\ list = S.list
           /\ created = S.created
           /\ hookLog = S.hookLog
           /\ hookSaw = S.hookSaw
           /\ newMemberPrefix = S.newMemberPrefix
    /\ inserts = 0
    /\ lastOp = Op("render", NoPrefix)
    /\ phase = "rendered"
    /\ typeField \in [{Prefix(i) : i \in 0..(initialCount - 1)} -> TypeTags]
    /\ childParams = [i \in 1..initialCount |-> ServerParam(i - 1)]
    /\ initLog = <<>>
    /\ deleteBound = {}
    /\ sibling = NoSequence
    /\ opts = [prefix |-> optsPrefix]

\* The initializer returned by StreamBlock(opts), called once with
\* (childParams, elementPrefix): constructs the Sequence, then binds the
\* footer's append buttons.
StreamActivate ==
    /\ phase = "rendered"
    /\ LET A == SequenceLoop([S |-> Cur, initLog |-> initLog,
                              deleteBound |-> deleteBound, thrown |-> FALSE],
                             typeField, childParams, 0)
       IN  /\ Become(A.S)
           /\ initLog' = A.initLog
           /\ deleteBound' = A.deleteBound
           /\ phase' = IF A.thrown THEN "faulted" ELSE "active"
    /\ lastOp' = Op("StreamBlock", NoPrefix)
    /\ UNCHANGED <<inserts, typeField, childParams>>

\* Click on the footer's "add <name>" button: sequence.appendMember(template)
\* with the template of that child block, whose "-type" field holds its name.
StreamAppendClick(name) ==
    /\ phase = "active"
    /\ getCount(Cur) < MaxCount
    /\ LET p == Prefix(getCount(Cur))
           types == typeField @@ (p :> name)
           A0 == [S |-> appendMember(Cur), initLog |-> initLog,
                  deleteBound |-> deleteBound \cup {p}, thrown |-> FALSE]
           A == onInitializeNewMember(A0, types, p)
       IN  /\ Become(A.S)
           /\ typeField' = types
           /\ initLog' = A.initLog
           /\ deleteBound' = A.deleteBound
           /\ phase' = phase
    /\ lastOp' = Op("appendMember", NoPrefix)
    /\ inserts' = inserts + 1
    /\ UNCHANGED childParams

\* Click on a member's delete button: sequenceMember.delete().
StreamDeleteClick(member) ==
    /\ phase \in {"active", "faulted"}
    /\ member \in deleteBound
    /\ Become(deleteMember(Cur, member))
    /\ lastOp' = Op("deleteMember", member)
    /\ UNCHANGED <<inserts, streamVars>>

StreamNext ==
    \/ StreamActivate
    \/ \E name \in ChildBlockNames : StreamAppendClick(name)
    \/ \E m \in Members : StreamDeleteClick(m)

SpecStream == StreamInit /\ [][StreamNext]_vars


\* ---------------------------------------------------------------- ListBlock
\* The ListBlock that keeps no Sequence: it reads the count field itself and
\* gives each member a SequenceMember(elementPrefix) that can only be deleted.

\* Values a list member may carry in the childParams the server supplies.
ListValues == {"a", "b"}

\* opts.templateChildParam
templateChildParam == <<"default", "child">>

\* self.delete of SequenceMember(elementPrefix): $('#' + elementPrefix +
\* '-deleted').val('1'), then the container fades out.
delete(A, elementPrefix) ==
    [A EXCEPT !.S.deletedField[elementPrefix] = "1"]

\* An initListMember that hands the child the prefix of the member's
\* container instead of the prefix of its value.
initListMemberAtContainer(A, o, childParam, listMemberPrefix) ==
    LET A1 == IF o.childInitializer
              THEN [A EXCEPT !.initLog =
                        Append(@, [type |-> "child", param |-> childParam,
                                   prefix |-> <<listMemberPrefix, "container">>])]
              ELSE A
    IN  [A1 EXCEPT !.S.created = Append(@, listMemberPrefix),
                   !.deleteBound = @ \cup {listMemberPrefix}]

\* initListMember(childParam, listMemberPrefix) of the ListBlock built with
\* opts o: runs opts.childInitializer if one was supplied, makes the
\* SequenceMember and binds the member's delete button.
initListMember(A, o, childParam, listMemberPrefix) ==
    LET A1 == IF o.childInitializer
              THEN [A EXCEPT !.initLog =
                        Append(@, InitCall("child", childParam, listMemberPrefix))]
              ELSE A
    IN  [A1 EXCEPT !.S.created = Append(@, listMemberPrefix),
                   !.deleteBound = @ \cup {listMemberPrefix}]

\* for (var i = ..; i < initialChildCount; i++)
\*     initListMember(childParams[i], elementPrefix + '-' + i)
RECURSIVE ListLoop(_, _, _, _, _)
ListLoop(A, o, params, i, initialChildCount) ==
    IF i >= initialChildCount THEN A
    ELSE ListLoop(initListMember(A, o, params[i + 1], Prefix(i)),
                  o, params, i + 1, initialChildCount)

\* An 'add' handler that takes the new member's number after raising the count.
listAddNumberedAfterIncrement(A, o) ==
    LET newIndex == ParseInt(A.S.countField) + 1
        newListMemberPrefix == Prefix(newIndex)
        A1 == [A EXCEPT !.S.countField = ToDec(newIndex),
                        !.S.list = Append(@, newListMemberPrefix),
                        !.S.deletedField = @ @@ (newListMemberPrefix :> "")]
    IN  initListMember(A1, o, o.templateChildParam, newListMemberPrefix)

\* The click handler of the 'add' button.
listAdd(A, o) ==
    LET newIndex == ParseInt(A.S.countField)
        newListMemberPrefix == Prefix(newIndex)
        A1 == [A EXCEPT !.S.countField = ToDec(newIndex + 1),
                        !.S.list = Append(@, newListMemberPrefix),
                        !.S.deletedField = @ @@ (newListMemberPrefix :> "")]
    IN  initListMember(A1, o, o.templateChildParam, newListMemberPrefix)

\* The page as the server renders a list of n members.
ListInit ==
    /\ impl = "SequenceMember"
    /\ initialCount \in 0..ListInitMax
    /\ countField = ToDec(initialCount)
    /\ members = <<>>
    /\ orderField = <<>>
    /\ deletedField = [p \in {Prefix(i) : i \in 0..(initialCount - 1)} |-> ""]
    /\ list = [i \in 1..initialCount |-> Prefix(i - 1)]
    /\ created = <<>>
    /\ hookLog = <<>>
    /\ hookSaw = NoView
    /\ newMemberPrefix = NoPrefix
    /\ inserts = 0
    /\ lastOp = Op("render", NoPrefix)
    /\ phase = "rendered"
    /\ typeField = <<>>
    /\ childParams \in [1..initialCount -> ListValues]
    /\ initLog = <<>>
    /\ deleteBound = {}
    /\ sibling = NoSequence
    /\ opts \in [childInitializer : BOOLEAN, templateChildParam : {templateChildParam}]

\* The initializer returned by ListBlock(opts), called once with
\* (childParams, elementPrefix).
ListActivate ==
    /\ phase = "rendered"
    /\ LET A == ListLoop([S |-> Cur, initLog |-> initLog,
                          deleteBound |-> deleteBound, thrown |-> FALSE],
                         opts, childParams, 0, ParseInt(countField))
       IN  /\ Become(A.S)
           /\ initLog' = A.initLog
           /\ deleteBound' = A.deleteBound
    /\ phase' = "active"
    /\ lastOp' = Op("ListBlock", NoPrefix)
    /\ UNCHANGED <<inserts, typeField, childParams>>

\* Click on the list's 'add' button.
ListAddClick ==
    /\ phase = "active"
    /\ getCount(Cur) < MaxCount
    /\ LET A == listAdd([S |-> Cur, initLog |-> initLog,
                         deleteBound |-> deleteBound, thrown |-> FALSE], opts)
       IN  /\ Become(A.S)
           /\ initLog' = A.initLog
           /\ deleteBound' = A.deleteBound
    /\ lastOp' = Op("add", NoPrefix)
    /\ inserts' = inserts + 1
    /\ UNCHANGED <<phase, typeField, childParams>>

\* Click on a list member's delete button: sequenceMember.delete().
ListDeleteClick(member) ==
    /\ phase = "active"
    /\ member \in deleteBound
    /\ LET A == delete([S |-> Cur, initLog |-> initLog,
                        deleteBound |-> deleteBound, thrown |-> FALSE], member)
       IN  Become(A.S)
    /\ lastOp' = Op("delete", member)
    /\ UNCHANGED <<inserts, phase, typeField, childParams, initLog, deleteBound>>

ListNext ==
    \/ ListActivate
    \/ ListAddClick
    \/ \E m \in Members : ListDeleteClick(m)

SpecList == ListInit /\ [][ListNext]_vars


\* -------------------------------------------------------------- StructBlock
\* StructBlock(childInitializersByName), whose initializer takes
\* (childParams, prefix).

\* Names a struct definition may give its fields.
FieldNames == {"title", "body", "photo"}

\* Prefixes a struct may be activated at.
StructPrefixes == {"page", "seq-0-value"}

\* childParams[childName] as supplied by the server.
FieldValue(childName) == <<"value", childName>>

\* The ways of listing the names of a set, each name once: the orders in which
\* for (var childName in childParams) may visit the keys of an object.
Enumerations(names) ==
    {e \in [1..Cardinality(names) -> names] : \A i, j \in DOMAIN e : i # j => e[i] # e[j]}

\* A loop body that calls the child as the one-argument StructBlock did:
\* with the child's prefix and no value.
structChildWithoutValue(A, childInitializersByName, childName, childParam, prefix) ==
    IF childName \notin childInitializersByName
    THEN [A EXCEPT !.thrown = TRUE]
    ELSE [A EXCEPT !.initLog = Append(@, [type |-> childName,
                                          param |-> <<"undefined", childName>>,
                                          prefix |-> <<prefix, childName>>])]

\* The body of the initializer's loop for one key of childParams:
\* childInitializer(childParam, prefix + '-' + childName).
\* childInitializersByName[childName] is undefined for a key that names no
\* field, and calling undefined throws.
structChild(A, childInitializersByName, childName, childParam, prefix) ==
    IF childName \notin childInitializersByName
    THEN [A EXCEPT !.thrown = TRUE]
    ELSE [A EXCEPT !.initLog = Append(@, [type |-> childName,
                                          param |-> childParam,
                                          prefix |-> <<prefix, childName>>])]

\* for (var childName in childParams) { ... } from the i-th key on.
RECURSIVE StructLoop(_, _, _, _, _)
StructLoop(A, childInitializersByName, params, prefix, i) ==
    IF A.thrown \/ i > Len(params) THEN A
    ELSE StructLoop(structChild(A, childInitializersByName, params[i].name,
                                params[i].value, prefix),
                    childInitializersByName, params, prefix, i + 1)

\* A struct definition and the childParams object the server sends with it.
StructInit ==
    /\ impl = "none"
    /\ initialCount = 0
    /\ countField = <<>>
    /\ members = <<>>
    /\ orderField = <<>>
    /\ deletedField = <<>>
    /\ list = <<>>
    /\ created = <<>>
    /\ hookLog = <<>>
    /\ hookSaw = NoView
    /\ newMemberPrefix = NoPrefix
    /\ inserts = 0
    /\ lastOp = Op("render", NoPrefix)
    /\ phase = "rendered"
    /\ typeField = <<>>
    /\ \E keys \in SUBSET FieldNames : \E e \in Enumerations(keys) :
           childParams = [i \in DOMAIN e |-> [name |-> e[i], value |-> FieldValue(e[i])]]
    /\ initLog = <<>>
    /\ deleteBound = {}
    /\ sibling = NoSequence
    /\ opts \in [childInitializersByName : SUBSET FieldNames, prefix : StructPrefixes]

\* The initializer returned by StructBlock(childInitializersByName), called
\* once with (childParams, prefix).
StructActivate ==
    /\ phase = "rendered"
    /\ LET A == StructLoop([initLog |-> initLog, thrown |-> FALSE],
                           opts.childInitializersByName, childParams, opts.prefix, 1)
       IN  /\ initLog' = A.initLog
           /\ phase' = IF A.thrown THEN "faulted" ELSE "active"
    /\ lastOp' = Op("StructBlock", NoPrefix)
    /\ UNCHANGED <<seqVars, typeField, childParams, deleteBound>>

StructNext == StructActivate

SpecStruct == StructInit /\ [][StructNext]_vars


\* -------------------------------------------------------------------- Macro
\* Macro(templateId, initializer): paste(container, prefix) appends the
\* template with its placeholders rewritten, then runs the initializer.

\* $('#' + templateId).text(), cut at the placeholders.
template == <<"<li id='", "__PREFIX__", "-container'><input id='", "__PREFIX__", "-value'></li>">>

\* Prefixes a caller may paste the macro under.
MacroPrefixes == {"seq-0", "seq-1", "seq-2"}

\* template.replace(/__PREFIX__/g, prefix)
ReplacePrefix(text, prefix) ==
    [i \in DOMAIN text |-> IF text[i] = "__PREFIX__" THEN prefix ELSE text[i]]

\* What the initializer finds when it is called with a prefix: whether the
\* markup written for that prefix is in the container yet.
MacroCall(M, prefix) ==
    [prefix |-> prefix,
     appended |-> \E i \in DOMAIN M.list : M.list[i] = ReplacePrefix(template, prefix)]

\* A paste that runs the initializer before it appends the markup.
pasteInitializingFirst(M, o, prefix) ==
    LET elem == ReplacePrefix(template, prefix)
        M1 == IF o.initializer
              THEN [M EXCEPT !.initLog = Append(@, MacroCall(M, prefix))]
              ELSE M
    IN  [M1 EXCEPT !.list = Append(@, elem)]

\* paste(container, prefix) of the macro built with arguments o.
paste(M, o, prefix) ==
    LET elem == ReplacePrefix(template, prefix)
        M1 == [M EXCEPT !.list = Append(@, elem)]
    IN  IF o.initializer
        THEN [M1 EXCEPT !.initLog = Append(@, MacroCall(M1, prefix))]
        ELSE M1

\* A macro just built, its container still empty.
MacroInit ==
    /\ impl = "none"
    /\ initialCount = 0
    /\ countField = <<>>
    /\ members = <<>>
    /\ orderField = <<>>
    /\ deletedField = <<>>
    /\ list = <<>>
    /\ created = <<>>
    /\ hookLog = <<>>
    /\ hookSaw = NoView
    /\ newMemberPrefix = NoPrefix
    /\ inserts = 0
    /\ lastOp = Op("Macro", "")
    /\ phase = "none"
    /\ typeField = <<>>
    /\ childParams = <<>>
    /\ initLog = <<>>
    /\ deleteBound = {}
    /\ sibling = NoSequence
    /\ opts \in [templateId : {"newmember"}, initializer : BOOLEAN]

\* macro.paste(container, prefix)
Paste(prefix) ==
    /\ Len(list) < MaxPastes
    /\ LET M == paste([list |-> list, initLog |-> initLog], opts, prefix)
       IN  /\ list' = M.list
           /\ initLog' = M.initLog
    /\ lastOp' = Op("paste", prefix)
    /\ inserts' = inserts + 1
    /\ UNCHANGED <<impl, countField, members, orderField, deletedField, created,
                   hookLog, hookSaw, newMemberPrefix, initialCount, opts, sibling,
                   phase, typeField,
                   childParams, deleteBound>>

MacroNext == \E prefix \in MacroPrefixes : Paste(prefix)

SpecMacro == MacroInit /\ [][MacroNext]_vars


\* ------------------------------------------------------ vocabulary of claims

\* The persisted order of a member, as a number.
Order(p) == ParseInt(orderField[p])

\* Members whose deleted flag is not set.
NonDeleted == {p \in Members : deletedField[p] # "1"}

\* The member object made by the insert call that has just run.
Newest == created[Len(created)]

InsertOps == {"insertMemberBefore", "insertMemberAfter", "insertMemberAtStart",
              "insertMemberAtEnd", "appendMember"}

\* The live members: in the live list and not flagged deleted.
IsLiveAt(k) == k \in 1..Len(members) /\ members[k] \in NonDeleted

\* ------------------------------------------------------------------ claims

\* C1 - index density: in every state reached by any series of insert and
\* delete calls on any members, the order values of the members whose deleted
\* flag is not set are exactly 0 .. liveCount-1, with no duplicate and no gap.
IndexDensity ==
    /\ {Order(p) : p \in NonDeleted} = 0..(Cardinality(NonDeleted) - 1)
    /\ \A p, q \in NonDeleted : p # q => Order(p) # Order(q)

\* All member prefixes differ; an insert step takes the prefix numbered by the
\* count field as it was, a prefix no earlier member has.
PrefixesDistinct ==
    \A i, j \in DOMAIN created : i # j => created[i] # created[j]

InsertAllocatesFreshPrefix ==
    lastOp'.op \in InsertOps =>
        /\ Len(created') = Len(created) + 1
        /\ created'[Len(created')] = Prefix(ParseInt(countField))
        /\ created'[Len(created')] \notin Members

\* C2 - prefix uniqueness: no two members ever made by the Sequence, live or
\* deleted, share a prefix, and every insert gives its member the prefix
\* opts.prefix-<count before the insert>, which no earlier member has had.
PrefixUniqueness == []PrefixesDistinct /\ [][InsertAllocatesFreshPrefix]_vars

\* A member was deleted and a later insert still got a prefix of its own.
PrefixUniquenessWitness ==
    /\ lastOp.op \in InsertOps
    /\ \E p \in Members : deletedField[p] = "1" /\ p # Newest
    /\ Newest = Prefix(Len(created) - 1)

\* What one step may do to the count field.
CountStep ==
    /\ ParseInt(countField') >= ParseInt(countField)
    /\ lastOp'.op \in InsertOps => ParseInt(countField') = ParseInt(countField) + 1
    /\ lastOp'.op = "deleteMember" => ParseInt(countField') = ParseInt(countField)

\* C3 - monotonic count: no step lowers the count field; every insert call
\* raises it by exactly 1 and deleteMember leaves it as it was.
MonotonicCount == [][CountStep]_vars

\* A delete that followed at least one insert, the count still counting both.
MonotonicCountWitness ==
    /\ lastOp.op = "deleteMember"
    /\ inserts >= 1
    /\ deletedField[lastOp.target] = "1"
    /\ ParseInt(countField) = initialCount + inserts

\* Number of calls of a callback for a member.
TimesFired(name, p) ==
    Cardinality({i \in DOMAIN hookLog : hookLog[i] = Hook(name, p)})

\* C4 - single dispatch: every member has had exactly one variant callback,
\* once: onInitializeInitialMember if it existed at construction,
\* onInitializeNewMember if an insert made it.
SingleDispatch ==
    \A i \in DOMAIN created :
        /\ TimesFired("onInitializeInitialMember", created[i])
              = (IF i <= initialCount THEN 1 ELSE 0)
        /\ TimesFired("onInitializeNewMember", created[i])
              = (IF i <= initialCount THEN 0 ELSE 1)

\* The effect required of a deleteMember step on the live member at position k.
DeleteRenumbersStep ==
    \A k \in 1..Len(members) :
        (IsLiveAt(k) /\ lastOp' = Op("deleteMember", members[k])) =>
            /\ \A j \in 1..(k - 1) :
                   ParseInt(orderField'[members[j]]) = Order(members[j])
            /\ \A j \in (k + 1)..Len(members) :
                   ParseInt(orderField'[members[j]]) = Order(members[j]) - 1
            /\ members' = SubSeq(members, 1, k - 1) \o SubSeq(members, k + 1, Len(members))

\* C5 - delete renumbering: deleteMember on the live member at live index k
\* (position k+1 of the live list) of n live members leaves the order of the
\* members before it unchanged, lowers the order of each member after it by
\* exactly 1, and leaves the other n-1 members in the live list in the same
\* relative order.
DeleteRenumbering == [][DeleteRenumbersStep]_vars

\* Number of child initializer calls made for a member's value region.
TimesInitialized(memberPrefix) ==
    Cardinality({i \in DOMAIN initLog : initLog[i].prefix = ValuePrefix(memberPrefix)})

InitialPrefixes == {Prefix(i) : i \in 0..(initialCount - 1)}

\* C6 - unknown type tag tolerance: once a StreamBlock has been activated
\* over members of which one carries a type tag missing from the registry,
\* the activation has raised no fault, no child initializer has run for that
\* member's value region, and every other pre-existing member has been
\* initialized as usual (once, if its type has an initializer).
UnknownTypeTolerance ==
    (phase \in {"active", "faulted"}
        /\ \E p \in InitialPrefixes : typeField[p] \notin ChildBlockNames) =>
        /\ phase = "active"
        /\ \A p \in InitialPrefixes :
               TimesInitialized(p) =
                   (IF typeField[p] \in ChildBlockNames /\ HasInitializer(typeField[p])
                    THEN 1 ELSE 0)

\* The new member sits at array index `at` of the old live list.
InsertedAt(at) ==
    /\ members' = SubSeq(members, 1, at) \o <<created'[Len(created')]>>
                    \o SubSeq(members, at + 1, Len(members))
    /\ ParseInt(orderField'[created'[Len(created')]]) = at
    /\ \A j \in 1..at : ParseInt(orderField'[members[j]]) = Order(members[j])
    /\ \A j \in (at + 1)..Len(members) :
           ParseInt(orderField'[members[j]]) = Order(members[j]) + 1

RelativeInsertionStep ==
    \A k \in 1..Len(members) :
        /\ (IsLiveAt(k) /\ lastOp' = Op("insertMemberBefore", members[k]))
               => InsertedAt(k - 1)
        /\ (IsLiveAt(k) /\ lastOp' = Op("insertMemberAfter", members[k]))
               => InsertedAt(k)

\* C7 - relative insertion: insertMemberBefore(m) puts the new member at the
\* live position m had, insertMemberAfter(m) one further; members from the
\* insertion point on have their order raised by exactly 1, those before it
\* keep theirs, and the previously live members keep their relative order.
RelativeInsertion == [][RelativeInsertionStep]_vars

\* What the equivalence compares: count, live list, order values, new prefix.
Outcome(S) ==
    [count |-> getCount(S), members |-> S.members,
     order |-> [p \in DOMAIN S.orderField |-> ParseInt(S.orderField[p])],
     prefix |-> S.newMemberPrefix]

TieBreakStep ==
    /\ (IsLiveAt(Len(members)) /\ lastOp' = Op("insertMemberAfter", members[Len(members)]))
           => Outcome(Cur') = Outcome(insertMemberAtEnd(Cur))
    /\ (IsLiveAt(1) /\ lastOp' = Op("insertMemberBefore", members[1]))
           => Outcome(Cur') = Outcome(insertMemberAtStart(Cur))

\* C8 - tie-break equivalence: on a non-empty Sequence, insertMemberAfter on
\* the last live member leaves the same count, live list, order values and new
\* prefix as insertMemberAtEnd would, and insertMemberBefore on the first live
\* member the same as insertMemberAtStart would.
TieBreakEquivalence == [][TieBreakStep]_vars

\* The effect required of an append step and of a prepend step.
AppendPrependStep ==
    /\ lastOp'.op \in {"insertMemberAtEnd", "appendMember"} =>
           /\ ParseInt(orderField'[created'[Len(created')]]) = Len(members)
           /\ \A p \in Members : orderField'[p] = orderField[p]
    /\ lastOp'.op = "insertMemberAtStart" =>
           /\ ParseInt(orderField'[created'[Len(created')]]) = 0
           /\ \A j \in 1..Len(members) :
                  ParseInt(orderField'[members[j]]) = Order(members[j]) + 1

\* C9 - append and prepend positions: an append gives the new member the live
\* length before the call as its order and changes no other member's order; a
\* prepend gives the new member order 0 and raises the order of every
\* previously live member by exactly 1; both also on an empty live list.
AppendPrependPositions == [][AppendPrependStep]_vars

\* C10 - getCount() answers the number of members ever allocated: the count
\* at construction plus the inserts made since, deleted members included; it
\* is not lowered by a delete, so it differs from the live length once a
\* member has been deleted.
GetCountIsAllocationCount ==
    /\ getCount(Cur) = initialCount + inserts
    /\ getCount(Cur) = Len(created)
    /\ (\E p \in Members : deletedField[p] = "1") => getCount(Cur) > Len(members)

\* Members were inserted and one deleted: the counter is ahead of the live list.
GetCountWitness ==
    /\ inserts >= 1
    /\ \E p \in Members : deletedField[p] = "1"
    /\ getCount(Cur) = Len(members) + 1


\* The stream started empty and "text", then "image" were appended, nothing
\* else: members 0 and 1, no deleted flag set.
TextThenImage ==
    /\ phase = "active"
    /\ initialCount = 0
    /\ created = <<Prefix(0), Prefix(1)>>
    /\ typeField = (Prefix(0) :> "text" @@ Prefix(1) :> "image")
    /\ NonDeleted = Members

\* Only appends so far (no deleted flag is set), and the step deletes a member
\* of the live list other than its last.
DeletesNonLastAfterAppends ==
    /\ NonDeleted = Members
    /\ \E k \in 1..(Len(members) - 1) : lastOp' = Op("deleteMember", members[k])

StreamScenarioStep ==
    /\ (TextThenImage /\ lastOp' = Op("deleteMember", Prefix(0))) =>
           /\ members' = <<Prefix(1)>>
           /\ typeField'[Prefix(1)] = "image"
           /\ ParseInt(orderField'[Prefix(1)]) = 0
           /\ ParseInt(countField') = 2
           /\ deletedField'[Prefix(0)] = "1"
           /\ deletedField'[Prefix(1)] # "1"
    /\ DeletesNonLastAfterAppends =>
           /\ Len(members') = Len(members) - 1
           /\ \A i \in 1..Len(members') :
                  /\ deletedField'[members'[i]] # "1"
                  /\ ParseInt(orderField'[members'[i]]) = i - 1
           /\ \A p \in Members : deletedField'[p] # "1" =>
                  \E i \in 1..Len(members') : members'[i] = p

\* C11 - stream scenario: from an empty stream, append "text", append "image",
\* delete the first member: the live list holds only the image member, with
\* order 0, count is 2 and the first member's deleted field is '1'; and after
\* appends alone, deleting a member that is not the last leaves the surviving
\* members numbered densely from 0.
StreamScenario == [][StreamScenarioStep]_vars

\* The scenario has run: text and image appended to an empty stream, the
\* text member deleted, the image member alone in the live list.
StreamScenarioWitness ==
    /\ initialCount = 0
    /\ created = <<Prefix(0), Prefix(1)>>
    /\ typeField = (Prefix(0) :> "text" @@ Prefix(1) :> "image")
    /\ lastOp = Op("deleteMember", Prefix(0))
    /\ members = <<Prefix(1)>>
    /\ deletedField[Prefix(0)] = "1"

\* The call the child initializer must receive for the member at index i.
ChildCall(param, i) ==
    [type |-> "child", param |-> param, prefix |-> <<Prefix(i), "value">>]

ListAddStep ==
    (lastOp'.op = "add" /\ inserts' = inserts + 1) =>
        LET c == ParseInt(countField)
        IN  /\ created' = Append(created, Prefix(c))
            /\ list' = Append(list, Prefix(c))
            /\ ParseInt(countField') = c + 1
            /\ opts.childInitializer =>
                   initLog' = Append(initLog, ChildCall(opts.templateChildParam, c))
            /\ ~opts.childInitializer => initLog' = initLog

\* C12 - list add: with the count field at c, one click on "add" creates the
\* member with prefix <listPrefix>-c, sets count to c + 1 and calls the child
\* initializer exactly once, with templateChildParam at that prefix + '-value'.
ListAdd == [][ListAddStep]_vars

\* A click on "add" has run on an activated list that has a child initializer
\* and had members before.
ListAddWitness ==
    /\ lastOp.op = "add"
    /\ opts.childInitializer
    /\ initialCount >= 1
    /\ Len(initLog) = initialCount + 1
    /\ ParseInt(countField) = initialCount + 1

\* C13 - list round trip: activating a list of n members with values
\* v0..v(n-1) calls the child initializer exactly once per member, with
\* (vi, <listPrefix>-i-value), in ascending i, all before activation returns.
ListRoundTrip ==
    /\ phase = "rendered" => initLog = <<>>
    /\ (phase = "active" /\ opts.childInitializer) =>
           /\ Len(initLog) >= initialCount
           /\ \A i \in 1..initialCount : initLog[i] = ChildCall(childParams[i], i - 1)
           /\ \A j \in (initialCount + 1)..Len(initLog) :
                  \A i \in 1..initialCount : initLog[j].prefix # initLog[i].prefix
    /\ lastOp = Op("ListBlock", NoPrefix) =>
           Len(initLog) = IF opts.childInitializer THEN initialCount ELSE 0

\* Activation of a list of two members with different values has returned.
ListRoundTripWitness ==
    /\ lastOp = Op("ListBlock", NoPrefix)
    /\ opts.childInitializer
    /\ initialCount = 2
    /\ childParams[1] # childParams[2]
    /\ Len(initLog) = 2


\* Positions of the callback log that belong to members rendered by the server.
InitialHookPositions == {a \in DOMAIN hookLog : hookLog[a].member[2] < initialCount}

HookOrderingState ==
    /\ \A a, b \in InitialHookPositions :
           hookLog[a].member[2] < hookLog[b].member[2] => a < b
    /\ \A p \in Members : TimesFired("onInitializeMember", p) = 1
    /\ \A a, b \in DOMAIN hookLog :
           (/\ hookLog[a].member = hookLog[b].member
            /\ hookLog[a].hook = "onInitializeMember"
            /\ hookLog[b].hook # "onInitializeMember") => a < b

HookOrderingStep ==
    inserts' = inserts + 1 =>
        /\ Len(hookLog') > Len(hookLog)
        /\ SubSeq(hookLog', 1, Len(hookLog)) = hookLog
        /\ \A j \in (Len(hookLog) + 1)..Len(hookLog') :
               hookLog'[j].member = created'[Len(created')]
        /\ hookLog'[Len(hookLog) + 1].hook = "onInitializeMember"

\* C14 - hook ordering: the callbacks of the members present at construction
\* fire in ascending index order, all callbacks of member i before any of
\* member i + 1; the callbacks of an inserted member fire inside the insert
\* call; and for each member onInitializeMember fires before its variant
\* callback.
HookOrdering == []HookOrderingState /\ [][HookOrderingStep]_vars

\* Two members were initialized at construction and one was appended, each
\* with its common and its variant callback.
HookOrderingWitness ==
    /\ impl = "appendMember"
    /\ initialCount = 2
    /\ inserts = 1
    /\ Len(hookLog) = 6
    /\ hookLog[5] = Hook("onInitializeMember", Prefix(2))
    /\ hookLog[6] = Hook("onInitializeNewMember", Prefix(2))


\* The fields of the struct's definition and the keys of childParams.
Fields == opts.childInitializersByName
ParamNames == {childParams[k].name : k \in DOMAIN childParams}

MacroPasteStep ==
    inserts' = inserts + 1 =>
        LET prefix == lastOp'.target
            elem == list'[Len(list')]
        IN  /\ list' = Append(list, elem)
            /\ \A i \in DOMAIN elem : elem[i] # "__PREFIX__"
            /\ \A i \in DOMAIN template :
                   elem[i] = IF template[i] = "__PREFIX__" THEN prefix ELSE template[i]
            /\ opts.initializer =>
                   initLog' = Append(initLog, [prefix |-> prefix, appended |-> TRUE])
            /\ ~opts.initializer => initLog' = initLog

\* C16 - macro paste: paste(container, prefix) first appends the markup with
\* every placeholder replaced by the prefix, then calls the initializer, if
\* one is bound, exactly once with that prefix (no call if none is bound);
\* a paste makes no call for the prefix of an earlier paste.
MacroPaste == [][MacroPasteStep]_vars

\* A macro with an initializer has been pasted under two different prefixes.
MacroPasteWitness ==
    /\ lastOp.op = "paste"
    /\ opts.initializer
    /\ Len(list) = 2
    /\ Len(initLog) = 2
    /\ initLog[1].prefix # initLog[2].prefix
    /\ initLog[2].appended


\* C17 - live list consistency: in every reachable state the member at
\* position i of the live list has order i, and the live list is no longer
\* than the count.
LiveListConsistency ==
    /\ \A i \in 1..Len(members) : Order(members[i]) = i - 1
    /\ Len(members) <= getCount(Cur)

\* C18 - soft delete membership: the live list holds exactly the members
\* whose deleted flag is not set.
SoftDeleteMembership ==
    \A p \in Members : (\E i \in 1..Len(members) : members[i] = p) <=> deletedField[p] # "1"


\* Whether a member is in the live list.
InLiveList(arr, p) == \E i \in 1..Len(arr) : arr[i] = p

DeletedIsTerminalStep ==
    \A p \in Members :
        deletedField[p] = "1" =>
            /\ deletedField'[p] = "1"
            /\ ~InLiveList(members, p) => ~InLiveList(members', p)

\* C19 - deleted is terminal: once a member's deleted field is '1', no later
\* operation resets it or puts the member back into the live list.
DeletedIsTerminal == [][DeletedIsTerminalStep]_vars

\* A member was deleted, and later calls were made on that same deleted
\* member: an insert relative to it and a second delete.
DeletedIsTerminalWitness ==
    /\ inserts >= 1
    /\ deletedField[Prefix(0)] = "1"
    /\ ~InLiveList(members, Prefix(0))
    /\ lastOp = Op("deleteMember", Prefix(0))
    /\ \E p \in Members : p[2] >= initialCount /\ Order(p) = Order(Prefix(0)) + 1


\* What the callbacks of an insert found: the mutation finished (the new
\* member in the live list, its order set, the count raised, nothing left to
\* change once they return) ...
CallbacksSawMutationDone ==
    inserts' = inserts + 1 =>
        LET new == created'[Len(created')]
        IN  /\ hookSaw' = [countField |-> countField', members |-> members',
                           orderField |-> orderField']
            /\ InLiveList(hookSaw'.members, new)
            /\ hookSaw'.orderField[new] # <<>>
            /\ ParseInt(hookSaw'.countField) = ParseInt(countField) + 1

\* ... and every member of the live list, shifted ones included, numbered by
\* its position.
CallbacksSawIndexInvariant ==
    inserts' = inserts + 1 =>
        \A i \in 1..Len(hookSaw'.members) :
            ParseInt(hookSaw'.orderField[hookSaw'.members[i]]) = i - 1

\* C20 - atomic mutations: a structural mutation runs to completion in one
\* handler turn, so a callback that looks at the Sequence sees the index
\* invariant: when the callbacks of a newly inserted member run, the member
\* is in the live list, its order is set, the count is raised and the shifted
\* members are renumbered.
AtomicMutations == [][CallbacksSawMutationDone /\ CallbacksSawIndexInvariant]_vars


\* The call a stream member's child initializer must receive: the type named
\* by the member's type field, at memberPrefix + '-value', with
\* childParams[index] for a member rendered by the server and with the type's
\* templateInitializerParam for a member pasted from a template.
DispatchedCall(memberPrefix) ==
    [type   |-> typeField[memberPrefix],
     param  |-> IF memberPrefix[2] < initialCount
                THEN childParams[memberPrefix[2] + 1]
                ELSE templateInitializerParam(typeField[memberPrefix]),
     prefix |-> <<memberPrefix, "value">>]

\* C21 - stream type dispatch: the child initializer run for a stream member
\* is the one registered under the name in the member's type field, called at
\* memberPrefix + '-value' with childParams[index] for a pre-existing member
\* and with the type's templateInitializerParam for an inserted one, and no
\* initializer of another type is called for that member.
StreamTypeDispatch ==
    /\ \A j \in DOMAIN initLog :
           /\ initLog[j].prefix[1] \in Members
           /\ initLog[j] = DispatchedCall(initLog[j].prefix[1])
           /\ initLog[j].type \in ChildBlockNames
           /\ \A k \in DOMAIN initLog : initLog[k].prefix = initLog[j].prefix => k = j
    /\ phase = "active" =>
           \A p \in Members :
               (typeField[p] \in ChildBlockNames /\ HasInitializer(typeField[p])) =>
                   \E j \in DOMAIN initLog : initLog[j] = DispatchedCall(p)

\* A stream rendered with an image member and a text member was activated
\* and an image member was then added from its template.
StreamTypeDispatchWitness ==
    /\ phase = "active"
    /\ initialCount = 2
    /\ typeField[Prefix(0)] = "image"
    /\ typeField[Prefix(1)] = "text"
    /\ inserts = 1
    /\ typeField[Prefix(2)] = "image"
    /\ Len(initLog) = 3
    /\ initLog[3].param = templateInitializerParam("image")


RepeatedDeleteStep ==
    \A m \in Members :
        (deletedField[m] = "1" /\ lastOp' = Op("deleteMember", m)) =>
            /\ members' = members
            /\ orderField' = orderField

\* C22 - repeated delete is harmless: deleteMember on a member that is already
\* deleted removes no member from the live list and changes no order value.
RepeatedDeleteHarmless == [][RepeatedDeleteStep]_vars

\* The live list and the fields agree: position i holds the member of order
\* i, the live list holds exactly the non-deleted members, and their order
\* values are dense.
Agreeing(arr, order, deleted) ==
    /\ \A i \in 1..Len(arr) : ParseInt(order[arr[i]]) = i - 1 /\ deleted[arr[i]] # "1"
    /\ \A p \in DOMAIN deleted : deleted[p] # "1" => InLiveList(arr, p)

InsertRelativeToDeletedStep ==
    \A m \in Members :
        (/\ deletedField[m] = "1"
         /\ ~InLiveList(members, m)
         /\ lastOp # Op("deleteMember", m)
         /\ Agreeing(members, orderField, deletedField)
         /\ lastOp' \in {Op("insertMemberBefore", m), Op("insertMemberAfter", m)})
        => Agreeing(members', orderField', deletedField')

\* C23 - insert relative to a deleted member: insertMemberBefore or
\* insertMemberAfter on a member deleted earlier, other operations having run
\* since, leaves live-list position i holding the member of order i, for every
\* i, and the order values of the non-deleted members dense.
InsertRelativeToDeleted == [][InsertRelativeToDeletedStep]_vars


\* C24 - activation from persisted state: a Sequence constructed over members
\* of which some carry deleted = '1' or an order different from their prefix
\* number has a live list of the non-deleted members only, each at the
\* position its order gives.
ActivationFromPersisted ==
    lastOp = Op("Sequence", NoPrefix) =>
        /\ \A p \in Members : InLiveList(members, p) <=> deletedField[p] # "1"
        /\ \A i \in 1..Len(members) : Order(members[i]) = i - 1


\* What a deleteMember(m) step may change: m's deleted flag, the order of
\* live members behind m, and the live list.
DeleteFrame ==
    lastOp'.op = "deleteMember" =>
        LET m == lastOp'.target
        IN  /\ countField' = countField
            /\ orderField'[m] = orderField[m]
            /\ created' = created
            /\ \A q \in Members \ {m} : deletedField'[q] = deletedField[q]
            /\ \A q \in Members :
                   orderField'[q] # orderField[q] =>
                       /\ deletedField[q] # "1"
                       /\ InLiveList(members, q)
                       /\ Order(q) > Order(m)

\* What an insert step leaves alone: the deleted flag and the prefix of every
\* member there was, and the order of every deleted member.
InsertFrame ==
    inserts' = inserts + 1 =>
        /\ SubSeq(created', 1, Len(created)) = created
        /\ \A q \in Members :
               /\ deletedField'[q] = deletedField[q]
               /\ deletedField[q] = "1" => orderField'[q] = orderField[q]

\* C25 - frame of delete and insert: deleteMember(m) changes only m's deleted
\* flag, the order of the live members after m and the live list, and leaves
\* the count, m's own order, every prefix and every other deleted flag as
\* they were; an insert leaves every existing member's deleted flag and
\* prefix as they were and changes the order of no deleted member.
FrameOfDeleteAndInsert == [][DeleteFrame /\ InsertFrame]_vars


SiblingOps == {"sibling.insertMemberBefore", "sibling.insertMemberAfter",
               "sibling.insertMemberAtStart", "sibling.insertMemberAtEnd",
               "sibling.deleteMember"}

\* A call on the second Sequence leaves the first as it was, and a member it
\* inserts is named by the second's own prefix and counter.
CallOnSiblingStep ==
    lastOp'.op \in SiblingOps =>
        /\ countField' = countField
        /\ members' = members
        /\ orderField' = orderField
        /\ deletedField' = deletedField
        /\ sibling'.inserts = sibling.inserts + 1 =>
               /\ sibling'.created =
                      Append(sibling.created, <<sibling.prefix, ParseInt(sibling.countField)>>)
               /\ InLiveList(sibling'.members, <<sibling.prefix, ParseInt(sibling.countField)>>)

\* A call on the first Sequence leaves the second as it was, and a member it
\* inserts is named by the first's own prefix and counter.
CallOnFirstStep ==
    lastOp'.op \notin SiblingOps =>
        /\ sibling'.countField = sibling.countField
        /\ sibling'.members = sibling.members
        /\ sibling'.orderField = sibling.orderField
        /\ sibling'.deletedField = sibling.deletedField
        /\ inserts' = inserts + 1 =>
               /\ created' = Append(created, <<optsPrefix, ParseInt(countField)>>)
               /\ InLiveList(members', <<optsPrefix, ParseInt(countField)>>)

\* C26 - isolation between Sequences: of two Sequences with different
\* prefixes, a call on one leaves the other's count, live list and members'
\* order and deleted values as they were, and a member inserted in one is
\* never given a prefix made from the other's prefix or counter, although both
\* keep the new prefix in the same variable.
IsolationBetweenSequences == [][CallOnSiblingStep /\ CallOnFirstStep]_vars

\* An insert on the nested Sequence was followed by an insert on the first,
\* which found the nested one's prefix in the shared variable.
IsolationWitness ==
    /\ sibling.prefix = "seq-0-value"
    /\ sibling.inserts = 1
    /\ inserts = 1
    /\ sibling.calls = 2
    /\ lastOp.op = "insertMemberAtEnd"
    /\ newMemberPrefix = <<optsPrefix, initialCount>>
    /\ ParseInt(sibling.countField) # initialCount + 1


====
